---- MODULE Spec2Model ----
(***************************************************************************)
(* Model of figure_fonts_checker.py: one invocation of main().             *)
(* Text is modelled as sequences of code points (integers), byte strings   *)
(* as sequences of byte values, so that decoding, splitting, matching and  *)
(* formatting are computed rather than assumed.                            *)
(***************************************************************************)
EXTENDS Integers, Sequences, FiniteSets, TLC

VARIABLES
    pc,           \* position of the invocation in main / check_font_type / make_image_pdf
    argv,         \* the image_files tuple click hands to main
    type,         \* --type option (None when absent)
    ignorecase,   \* --ignorecase flag
    image_files,  \* the list main builds and mutates (line 162-166)
    idx,          \* position of the list iterator of the loop at line 163 (1-based)
    f,            \* loop variable of line 163 (None while unbound)
    font_pattern, \* compiled filter [pat, flag] (pat is None while unbound)
    doc,          \* figure paths written to the temporary document
    fdBound,      \* local fd of make_image_pdf has been assigned
    cwd,          \* local cwd of make_image_pdf (None while unbound)
    file_name,    \* local file_name of make_image_pdf (None while unbound)
    disk,         \* files present in the temporary directory
    fdState,      \* descriptor returned by mkstemp: "none", "open", "closed"
    fState,       \* document file handle of line 99: "none", "open", "closed"
    procCwd,      \* working directory of the process
    platexStatus, \* exit status of platex (-1: not run)
    dviStatus,    \* exit status of dvipdfmx (-1: not run)
    pending,      \* what the try block of make_image_pdf ended with
    entered,      \* the os.chdir of line 109 moved the process into tmp_dir
    chdirRaised,  \* the os.chdir of line 123 raised
    pdf_file,     \* value returned by make_image_pdf (None when it did not return)
    inspected,    \* pdffonts has been invoked
    pdfFonts,     \* the font table pdffonts reports for the PDF
    raw,          \* bytes captured from pdffonts
    font_types,   \* list returned by check_font_type (None when it did not return)
    k,            \* position of the loop at line 176 (1-based)
    out,          \* lines printed on stdout
    result        \* "running", "ok", or the name of the unhandled exception

vars == <<pc, argv, type, ignorecase, image_files, idx, f, font_pattern, doc,
          fdBound, cwd, file_name, disk, fdState, fState, procCwd, platexStatus,
          dviStatus, pending, entered, chdirRaised, pdf_file, inspected, pdfFonts,
          raw, font_types, k, out, result>>

\* The absent value (Python None / an unbound local): no text holds a negative code point.
None == <<-1>>

----------------------------------------------------------------------------
\* Bounds of the explored inputs.
MaxArgs == 2
MaxRows == 2

----------------------------------------------------------------------------
\* Character classes of Python's re for the code points that occur.
SpaceChars == {9, 10, 11, 12, 13, 28, 29, 30, 31, 32, 133, 160}
DigitChars == 48..57
\* letters, digits, underscore, and the non-ASCII letters the decoders below produce
WordChars == DigitChars \cup (65..90) \cup (97..122) \cup {95} \cup {12354, 32314, 65393}
NewlineChars == {10, 13}

\* re.IGNORECASE folding
Fold(c) == IF c \in 65..90 THEN c + 32 ELSE c

Range(s) == {s[j] : j \in 1..Len(s)}

\* first index >= i whose character is outside cls (Len(s)+1 when there is none)
RECURSIVE SkipRun(_, _, _)
SkipRun(s, i, cls) ==
    IF i > Len(s) \/ s[i] \notin cls THEN i ELSE SkipRun(s, i + 1, cls)

----------------------------------------------------------------------------
\* convert_ext: os.path.splitext(base_name)[0] + "." + ext
LastDot(s) ==
    LET dots == {j \in 1..Len(s) : s[j] = 46 /\ \A m \in j..Len(s) : s[m] # 47}
    IN IF dots = {} THEN 0 ELSE CHOOSE j \in dots : \A m \in dots : m <= j

\* os.path.splitext: the extension starts at the last dot of the last
\* component, unless only dots precede it in that component
SplitExtBase(s) ==
    LET d == LastDot(s)
        start == IF \E j \in 1..Len(s) : s[j] = 47
                 THEN 1 + CHOOSE j \in 1..Len(s) : s[j] = 47 /\ \A m \in j+1..Len(s) : s[m] # 47
                 ELSE 1
    IN IF d = 0 \/ \A j \in start..d : s[j] = 46 THEN s ELSE SubSeq(s, 1, d - 1)

convert_ext(base_name, ext) == SplitExtBase(base_name) \o <<46>> \o ext

----------------------------------------------------------------------------
\* to_str: decode under "sjis", then "utf8"; the first success is returned.
Prepend(c, rest) == IF rest = None THEN None ELSE <<c>> \o rest

\* JIS X 0208 double-byte table, restricted to the pairs that occur in the
\* modelled inspector outputs (-1: no character assigned)
SjisDouble(lead, trail) ==
    CASE lead = 227 /\ trail = 129 -> 32314     \* E3 81 -> U+7E3A
      [] lead = 130 /\ trail = 160 -> 12354     \* 82 A0 -> U+3042
      [] lead = 129 /\ trail = 130 -> 8800      \* 81 82 -> U+2260
      [] OTHER -> -1

\* end of the run of ASCII bytes that starts at i (they decode to themselves)
AsciiEnd(b, i) ==
    LET stops == {j \in i..Len(b) : b[j] >= 128}
    IN IF stops = {} THEN Len(b) + 1 ELSE CHOOSE j \in stops : \A m \in stops : j <= m

Concat(pre, rest) == IF rest = None THEN None ELSE pre \o rest

RECURSIVE SjisDecode(_, _)
SjisDecode(b, i) ==
    IF i > Len(b) THEN <<>>
    ELSE LET c == b[i] IN
         IF c < 128
         THEN Concat(SubSeq(b, i, AsciiEnd(b, i) - 1), SjisDecode(b, AsciiEnd(b, i)))
         ELSE IF c \in 161..223 THEN Prepend(65377 + (c - 161), SjisDecode(b, i + 1))
         ELSE IF c \in (129..159) \cup (224..252)
              THEN IF i + 1 <= Len(b)
                      /\ b[i + 1] \in (64..126) \cup (128..252)
                      /\ SjisDouble(c, b[i + 1]) >= 0
                   THEN Prepend(SjisDouble(c, b[i + 1]), SjisDecode(b, i + 2))
                   ELSE None
         ELSE None

IsCont(b, j) == j <= Len(b) /\ b[j] \in 128..191

RECURSIVE Utf8Decode(_, _)
Utf8Decode(b, i) ==
    IF i > Len(b) THEN <<>>
    ELSE LET c == b[i] IN
         IF c < 128
         THEN Concat(SubSeq(b, i, AsciiEnd(b, i) - 1), Utf8Decode(b, AsciiEnd(b, i)))
         ELSE IF c \in 194..223 /\ IsCont(b, i + 1)
              THEN Prepend((c - 192) * 64 + (b[i + 1] - 128), Utf8Decode(b, i + 2))
         ELSE IF c \in 224..239 /\ IsCont(b, i + 1) /\ IsCont(b, i + 2)
                 /\ (c = 224 => b[i + 1] >= 160) /\ (c = 237 => b[i + 1] <= 159)
              THEN Prepend((c - 224) * 4096 + (b[i + 1] - 128) * 64 + (b[i + 2] - 128),
                           Utf8Decode(b, i + 3))
         ELSE IF c \in 240..244 /\ IsCont(b, i + 1) /\ IsCont(b, i + 2) /\ IsCont(b, i + 3)
                 /\ (c = 240 => b[i + 1] >= 144) /\ (c = 244 => b[i + 1] <= 143)
              THEN Prepend((c - 240) * 262144 + (b[i + 1] - 128) * 4096
                               + (b[i + 2] - 128) * 64 + (b[i + 3] - 128),
                           Utf8Decode(b, i + 4))
         ELSE None

\* the loop falls off its end when every encoding raised: the function returns None
to_str(text) ==
    IF SjisDecode(text, 1) # None THEN SjisDecode(text, 1)
    ELSE IF Utf8Decode(text, 1) # None THEN Utf8Decode(text, 1)
    ELSE None

----------------------------------------------------------------------------
\* output_pattern.split: cut at every run of \r and \n
\* first positions of the maximal runs of \r and \n
SeparatorStarts(s) ==
    {j \in 1..Len(s) : s[j] \in NewlineChars /\ (j = 1 \/ s[j - 1] \notin NewlineChars)}

NthOf(S, n) == CHOOSE x \in S : Cardinality({y \in S : y < x}) = n - 1

\* the texts before, between and after the separators (empty ones included)
output_pattern_split(s) ==
    LET seps == SeparatorStarts(s)
        n == Cardinality(seps)
        from(j) == IF j = 1 THEN 1 ELSE SkipRun(s, NthOf(seps, j - 1), NewlineChars)
        upto(j) == IF j = n + 1 THEN Len(s) ELSE NthOf(seps, j) - 1
    IN [j \in 1..n+1 |-> SubSeq(s, from(j), upto(j))]

----------------------------------------------------------------------------
\* pdffonts_parse_pattern.match (re.VERBOSE | re.IGNORECASE).  Under
\* re.VERBOSE the blank inside "type .+" is not part of the pattern, which is
\*     (.+) \s+ (type.+) \s{2,} (\w+)\s+(\w+)\s+(\w+) \s+ (\d+\s+\d+)

\* The part after the type group matches at e.  \s is disjoint from \w and
\* \d, so every repetition but the last must take a whole run.
TailMatches(s, e) ==
    LET a1 == SkipRun(s, e, SpaceChars)
        b1 == SkipRun(s, a1, WordChars)
        a2 == SkipRun(s, b1, SpaceChars)
        b2 == SkipRun(s, a2, WordChars)
        a3 == SkipRun(s, b2, SpaceChars)
        b3 == SkipRun(s, a3, WordChars)
        a4 == SkipRun(s, b3, SpaceChars)
        b4 == SkipRun(s, a4, DigitChars)
        a5 == SkipRun(s, b4, SpaceChars)
    IN /\ a1 >= e + 2
       /\ b1 > a1 /\ a2 > b1
       /\ b2 > a2 /\ a3 > b2
       /\ b3 > a3 /\ a4 > b3
       /\ b4 > a4 /\ a5 > b4
       /\ a5 <= Len(s) /\ s[a5] \in DigitChars

\* "type" (any case) at q, after a non-empty name and at least one \s
TypeAt(s, q) ==
    /\ q >= 3 /\ q + 3 <= Len(s)
    /\ s[q - 1] \in SpaceChars
    /\ \A j \in 1..q-2 : s[j] # 10
    /\ Fold(s[q]) = 116 /\ Fold(s[q + 1]) = 121
    /\ Fold(s[q + 2]) = 112 /\ Fold(s[q + 3]) = 101

\* ends of the type group ("type" and at least one more character, none a newline)
TypeEnds(s, q) ==
    {e \in q+5..Len(s) : TailMatches(s, e) /\ \A j \in q..e-1 : s[j] # 10}

MaxOf(S) == CHOOSE x \in S : \A y \in S : y <= x

\* group("type") of the match, None when the chunk does not match.  Greedy
\* (.+) gives the rightmost start, greedy .+ the rightmost end.
ParseType(s) ==
    LET starts == {q \in 3..Len(s) : TypeAt(s, q) /\ TypeEnds(s, q) # {}}
    IN IF starts = {} THEN None
       ELSE LET q == MaxOf(starts) IN SubSeq(s, q, MaxOf(TypeEnds(s, q)) - 1)

\* lines 147-148 of check_font_type
RECURSIVE ParseAll(_, _)
ParseAll(chunks, i) ==
    IF i > Len(chunks) THEN <<>>
    ELSE LET t == ParseType(chunks[i]) IN
         IF t = None THEN ParseAll(chunks, i + 1) ELSE <<t>> \o ParseAll(chunks, i + 1)

----------------------------------------------------------------------------
\* The wildcard loop of main (lines 162-166).
HasWild(name) == \E j \in 1..Len(name) : name[j] \in {42, 63}

\* fnmatch for the patterns built from "*" and "?"
RECURSIVE FnMatchFrom(_, _, _, _)
FnMatchFrom(pat, i, name, j) ==
    IF i > Len(pat) THEN j > Len(name)
    ELSE IF pat[i] = 42 THEN \E m \in j..Len(name)+1 : FnMatchFrom(pat, i + 1, name, m)
    ELSE /\ j <= Len(name)
         /\ (pat[i] = 63 \/ pat[i] = name[j])
         /\ FnMatchFrom(pat, i + 1, name, j + 1)

\* files of the caller's directory, in the order the directory scan yields them
Listing == << <<98, 46, 106, 112, 103>>,      \* b.jpg
              <<99, 46, 106, 112, 103>>,      \* c.jpg
              <<97, 46, 112, 110, 103>> >>    \* a.png

GlobMatches(pat, name) ==
    /\ FnMatchFrom(pat, 1, name, 1)
    /\ (name[1] = 46 => pat[1] = 46)      \* hidden files need an explicit dot

\* glob.glob(f)
Glob(pat) == SelectSeq(Listing, LAMBDA name : GlobMatches(pat, name))

\* list.remove(x): drops the first occurrence
Remove(lst, x) ==
    LET first == CHOOSE j \in 1..Len(lst) : lst[j] = x /\ \A m \in 1..j-1 : lst[m] # x
    IN SubSeq(lst, 1, first - 1) \o SubSeq(lst, first + 1, Len(lst))

\* body of the loop at lines 164-166 for the entry x
ExpandEntry(lst, x) == IF HasWild(x) THEN Remove(lst, x) \o Glob(x) ELSE lst

----------------------------------------------------------------------------
\* make_image_pdf
CallerDir == <<47>>                                   \* "/"
TmpDir == <<47, 116>>                                 \* "/t"
TmpFile == <<47, 116, 47, 100, 46, 116, 120, 116>>    \* "/t/d.txt"
DviExt == <<100, 118, 105>>
PdfExt == <<112, 100, 102>>

\* os.path.abspath(image_file).replace("\\", "/") for a relative name
FigurePath(image_file, dir) ==
    LET joined == IF dir[Len(dir)] = 47 THEN dir \o image_file
                  ELSE dir \o <<47>> \o image_file
    IN [j \in 1..Len(joined) |-> IF joined[j] = 92 THEN 47 ELSE joined[j]]

DviFileOf(name) == convert_ext(name, DviExt)

PdfFileOfDvi(name) == convert_ext(name, DviExt)

\* line 116
PdfFileOf(name) == convert_ext(name, PdfExt)

FinallyChdirFirst(fdB, fdS, cwdV, dir, pend, restored) ==
    IF cwdV = None
    THEN [fdState |-> fdS, procCwd |-> dir, chdirRaised |-> FALSE,
          outcome |-> "UnboundLocalError"]
    ELSE IF ~restored
         THEN [fdState |-> fdS, procCwd |-> dir, chdirRaised |-> TRUE,
               outcome |-> "OSError"]
    ELSE IF ~fdB
         THEN [fdState |-> fdS, procCwd |-> cwdV, chdirRaised |-> FALSE,
               outcome |-> "UnboundLocalError"]
    ELSE [fdState |-> "closed", procCwd |-> cwdV, chdirRaised |-> FALSE, outcome |-> pend]

\* lines 121-123: os.close(fd), then os.chdir(cwd).  Reading an unassigned
\* local raises UnboundLocalError; os.chdir(cwd) raises OSError when the
\* caller's directory cannot be entered (restored = FALSE) and the process
\* stays where it is.  Either exception replaces whatever the try block
\* ended with.  os.close(fd) does not fail: nothing else closes fd.
FinallyBlock(fdB, fdS, cwdV, dir, pend, restored) ==
    IF ~fdB
    THEN [fdState |-> fdS, procCwd |-> dir, chdirRaised |-> FALSE,
          outcome |-> "UnboundLocalError"]
    ELSE IF cwdV = None
         THEN [fdState |-> "closed", procCwd |-> dir, chdirRaised |-> FALSE,
               outcome |-> "UnboundLocalError"]
    ELSE IF ~restored
         THEN [fdState |-> "closed", procCwd |-> dir, chdirRaised |-> TRUE,
               outcome |-> "OSError"]
    ELSE [fdState |-> "closed", procCwd |-> cwdV, chdirRaised |-> FALSE, outcome |-> pend]

----------------------------------------------------------------------------
\* Filter and report (lines 169-182).
Truthy(v) == v # None /\ v # <<>>

\* font_pattern.match for a pattern of literal characters: anchored at the
\* start, folded under re.IGNORECASE
re_match(fp, s) ==
    /\ Len(fp.pat) <= Len(s)
    /\ \A j \in 1..Len(fp.pat) :
           IF fp.flag THEN Fold(fp.pat[j]) = Fold(s[j]) ELSE fp.pat[j] = s[j]

\* "{f}: {font_type}".format(*locals()): the names of the locals arrive as
\* positional arguments, the named field f is looked up among no keywords
FormatPositional(fv, ft) == [kind |-> "raise", err |-> "KeyError", line |-> <<>>]

FormatKeywordSwapped(fv, ft) ==
    IF fv = None THEN [kind |-> "raise", err |-> "KeyError", line |-> <<>>]
    ELSE [kind |-> "print", err |-> "", line |-> ft \o <<58, 32>> \o fv]

\* "{f}: {font_type}".format(**locals()): f is a key only once the loop at
\* line 163 has bound it
FormatKeyword(fv, ft) ==
    IF fv = None THEN [kind |-> "raise", err |-> "KeyError", line |-> <<>>]
    ELSE [kind |-> "print", err |-> "", line |-> fv \o <<58, 32>> \o ft]

Skip == [kind |-> "skip", err |-> "", line |-> <<>>]

ReportElseLost(tp, fp, fv, ft) ==
    IF Truthy(tp) /\ re_match(fp, ft) THEN FormatPositional(fv, ft)
    ELSE FormatKeyword(fv, ft)

ReportDanglingElse(tp, fp, fv, ft) ==
    IF Truthy(tp)
    THEN IF re_match(fp, ft) THEN FormatPositional(fv, ft) ELSE FormatKeyword(fv, ft)
    ELSE Skip

\* body of the loop at lines 177-182
Report(tp, fp, fv, ft) ==
    IF Truthy(tp)
    THEN IF re_match(fp, ft) THEN FormatPositional(fv, ft) ELSE Skip
    ELSE FormatKeyword(fv, ft)

----------------------------------------------------------------------------
\* Inputs and environment.
ArgSet == { <<97, 46, 112, 110, 103>>,      \* a.png
            <<42, 46, 106, 112, 103>>,      \* *.jpg  (two matches)
            <<42, 46, 112, 110, 103>>,      \* *.png  (one match)
            <<42, 46, 103, 105, 102>> }     \* *.gif  (no match)

ArgLists == UNION {[1..n -> ArgSet] : n \in 0..MaxArgs}

TypeOptions == { None,
                 <<84, 121, 112, 101, 49>>,     \* Type1
                 <<49>> }                       \* 1

Arial == <<65, 114, 105, 97, 108>>
TrueType == <<84, 114, 117, 101, 84, 121, 112, 101>>
Type_1C == <<84, 121, 112, 101, 32, 49, 67>>            \* "Type 1C"
Type1C == <<84, 121, 112, 101, 49, 67>>
type1C == <<116, 121, 112, 101, 49, 67>>
Type1 == <<84, 121, 112, 101, 49>>
Flags == <<121, 101, 115, 32, 121, 101, 115, 32, 121, 101, 115>>    \* "yes yes yes"
ObjectId == <<49, 50, 32, 32, 48>>                                  \* "12  0"
Header == <<110, 97, 109, 101, 32, 116, 121, 112, 101, 32, 101, 109, 98, 32,
            115, 117, 98, 32, 117, 110, 105, 32, 111, 98, 106, 101, 99, 116,
            32, 73, 68>>                        \* "name type emb sub uni object ID"

Spaces(n) == [j \in 1..n |-> 32]

FontRow(desc, gap) == [kind |-> "font", name |-> Arial, desc |-> desc, gap |-> gap]
TextRow(bytes) == [kind |-> "text", name |-> bytes, desc |-> <<>>, gap |-> 0]

\* rows of the report: fonts, the header, and names outside ASCII
FontRows == { FontRow(TrueType, 2), FontRow(Type_1C, 3),
              FontRow(Type1C, 2), FontRow(type1C, 2), FontRow(Type1, 2) }
RowSet == FontRows \cup {TextRow(Header)}
OddRows == { TextRow(<<255>>),              \* decodes under neither encoding
             TextRow(<<177>>),              \* sjis only
             TextRow(<<227, 129, 130>>) }   \* utf8 only

FontTables ==
    UNION {[1..n -> RowSet] : n \in 0..MaxRows}
        \cup {<<odd, FontRow(Type1C, 2)>> : odd \in OddRows}

\* one line of the report as pdffonts writes it
RenderRow(r) ==
    IF r.kind = "font"
    THEN r.name \o Spaces(2) \o r.desc \o Spaces(r.gap) \o Flags \o Spaces(2) \o ObjectId
    ELSE r.name

RECURSIVE RenderTable(_, _)
RenderTable(t, i) ==
    IF i > Len(t) THEN <<>> ELSE RenderRow(t[i]) \o <<10>> \o RenderTable(t, i + 1)

----------------------------------------------------------------------------
\* A list that has not been returned (a list of texts never holds None).
NoList == <<None>>

Init ==
    /\ pc = "expand"
    /\ argv \in ArgLists
    /\ type \in TypeOptions
    /\ ignorecase \in BOOLEAN
    /\ image_files = argv                 \* line 162
    /\ idx = 1
    /\ f = None
    /\ font_pattern = [pat |-> None, flag |-> FALSE]
    /\ doc = <<>>
    /\ fdBound = FALSE
    /\ cwd = None
    /\ file_name = None
    /\ disk = {}
    /\ fdState = "none"
    /\ fState = "none"
    /\ procCwd = CallerDir
    /\ platexStatus = -1
    /\ dviStatus = -1
    /\ pending = "none"
    /\ entered = FALSE
    /\ chdirRaised = FALSE
    /\ pdf_file = None
    /\ inspected = FALSE
    /\ pdfFonts = <<>>
    /\ raw = <<>>
    /\ font_types = NoList
    /\ k = 1
    /\ out = <<>>
    /\ result = "running"

mainVars == <<argv, type, ignorecase>>
loopVars == <<image_files, idx, f>>
mkVars == <<doc, fdBound, cwd, file_name, disk, fdState, fState, procCwd,
            platexStatus, dviStatus, pending, entered, chdirRaised>>
checkVars == <<pdf_file, inspected, pdfFonts, raw, font_types>>
reportVars == <<k, out>>

\* lines 163-166: one iteration of the for loop over the list being mutated
ExpandStep ==
    /\ pc = "expand"
    /\ idx <= Len(image_files)
    /\ f' = image_files[idx]
    /\ image_files' = ExpandEntry(image_files, image_files[idx])
    /\ idx' = idx + 1
    /\ UNCHANGED <<pc, mainVars, font_pattern, mkVars, checkVars, reportVars, result>>

\* lines 169-175: the iterator is exhausted; compile the filter, enter
\* check_font_type and make_image_pdf
SetupFilter ==
    /\ pc = "expand"
    /\ idx > Len(image_files)
    /\ font_pattern' = IF Truthy(type) THEN [pat |-> type, flag |-> ignorecase]
                       ELSE font_pattern
    /\ pc' = "mkdtemp"
    /\ UNCHANGED <<mainVars, loopVars, mkVars, checkVars, reportVars, result>>

\* line 93 (outside the try block)
MkDTemp ==
    /\ pc = "mkdtemp"
    /\ \E ok \in BOOLEAN :
          IF ok THEN pc' = "mkstemp" /\ result' = result
          ELSE pc' = "done" /\ result' = "OSError"
    /\ UNCHANGED <<mainVars, loopVars, font_pattern, mkVars, checkVars, reportVars>>

\* line 97
MkSTemp ==
    /\ pc = "mkstemp"
    /\ \E ok \in BOOLEAN :
          IF ok
          THEN /\ fdBound' = TRUE
               /\ fdState' = "open"
               /\ file_name' = TmpFile
               /\ disk' = disk \cup {TmpFile}
               /\ pc' = "open"
               /\ pending' = pending
          ELSE /\ pending' = "OSError"
               /\ pc' = "finally"
               /\ UNCHANGED <<fdBound, fdState, file_name, disk>>
    /\ UNCHANGED <<mainVars, loopVars, font_pattern, doc, cwd, fState, procCwd,
                   platexStatus, dviStatus, checkVars, reportVars, result>>
    /\ UNCHANGED <<entered, chdirRaised>>

\* line 99: open(file_name, "w") returns the handle f or raises
OpenDocument ==
    /\ pc = "open"
    /\ \E ok \in BOOLEAN :
          /\ fState' = IF ok THEN "open" ELSE fState
          /\ pending' = IF ok THEN pending ELSE "OSError"
          /\ pc' = IF ok THEN "write" ELSE "finally"
    /\ UNCHANGED <<mainVars, loopVars, font_pattern, doc, fdBound, cwd, file_name, disk,
                   fdState, procCwd, platexStatus, dviStatus, checkVars, reportVars,
                   result>>
    /\ UNCHANGED <<entered, chdirRaised>>

\* lines 100-106: the document is written in 2 + len(image_files) calls of
\* f.write; a call that raises leaves the figure blocks written before it.
\* Leaving the with block closes the handle, whether by its end or by an
\* exception.
WriteDocument ==
    /\ pc = "write"
    /\ \E outcome \in {"written", "write fails"} :
       \E n \in 0..Len(image_files) :
          /\ outcome = "written" => n = Len(image_files)
          /\ fState' = "closed"
          /\ doc' = [j \in 1..n |-> FigurePath(image_files[j], procCwd)]
          /\ pending' = IF outcome = "written" THEN pending ELSE "OSError"
          /\ pc' = IF outcome = "written" THEN "chdir" ELSE "finally"
    /\ UNCHANGED <<mainVars, loopVars, font_pattern, fdBound, cwd, file_name, disk,
                   fdState, procCwd, platexStatus, dviStatus, checkVars, reportVars,
                   result>>
    /\ UNCHANGED <<entered, chdirRaised>>

\* lines 108-109: os.getcwd() raises when the caller's directory is gone and
\* leaves cwd unbound; os.chdir(tmp_dir) raises with cwd already bound
ChDir ==
    /\ pc = "chdir"
    /\ \E outcome \in {"moved", "getcwd fails", "chdir fails"} :
          /\ cwd' = IF outcome = "getcwd fails" THEN cwd ELSE procCwd
          /\ procCwd' = IF outcome = "moved" THEN TmpDir ELSE procCwd
          /\ pc' = IF outcome = "moved" THEN "platex" ELSE "finally"
          /\ entered' = (outcome = "moved")
          /\ pending' = IF outcome = "moved" THEN pending ELSE "OSError"
    /\ UNCHANGED <<mainVars, loopVars, font_pattern, doc, fdBound, file_name, disk,
                   fdState, fState, platexStatus, dviStatus, checkVars, reportVars,
                   result>>
    /\ UNCHANGED chdirRaised

\* lines 110-111: subprocess.call raises when platex cannot be launched and
\* returns its exit status otherwise; a successful run leaves the .dvi file
RunCompiler ==
    /\ pc = "platex"
    /\ \E launched \in BOOLEAN, status \in {0, 1} :
          IF ~launched
          THEN /\ pending' = "OSError"
               /\ pc' = "finally"
               /\ UNCHANGED <<platexStatus, disk>>
          ELSE /\ platexStatus' = status
               /\ disk' = IF status = 0 THEN disk \cup {DviFileOf(file_name)} ELSE disk
               /\ pc' = IF status = 0 THEN "dvipdfmx" ELSE "exists"
               /\ pending' = pending
    /\ UNCHANGED <<mainVars, loopVars, font_pattern, doc, fdBound, cwd, file_name,
                   fdState, fState, procCwd, dviStatus, checkVars, reportVars, result>>
    /\ UNCHANGED <<entered, chdirRaised>>

\* lines 112-114: the exit status of dvipdfmx is dropped; whether it left a
\* .pdf file is independent of that status
RunConverter ==
    /\ pc = "dvipdfmx"
    /\ \E launched \in BOOLEAN, status \in {0, 1}, wrote \in BOOLEAN :
          IF ~launched
          THEN /\ pending' = "OSError"
               /\ pc' = "finally"
               /\ UNCHANGED <<dviStatus, disk>>
          ELSE /\ dviStatus' = status
               /\ disk' = IF wrote THEN disk \cup {convert_ext(DviFileOf(file_name), PdfExt)}
                          ELSE disk
               /\ pc' = "exists"
               /\ pending' = pending
    /\ UNCHANGED <<mainVars, loopVars, font_pattern, doc, fdBound, cwd, file_name,
                   fdState, fState, procCwd, platexStatus, checkVars, reportVars, result>>
    /\ UNCHANGED <<entered, chdirRaised>>

\* lines 116-120
CheckPdf ==
    /\ pc = "exists"
    /\ pending' = IF PdfFileOf(file_name) \in disk THEN "return" ELSE "RuntimeError"
    /\ pc' = "finally"
    /\ UNCHANGED <<mainVars, loopVars, font_pattern, doc, fdBound, cwd, file_name, disk,
                   fdState, fState, procCwd, platexStatus, dviStatus, checkVars,
                   reportVars, result>>
    /\ UNCHANGED <<entered, chdirRaised>>

\* lines 121-123, then line 140 of check_font_type when the function returns
Finally ==
    /\ pc = "finally"
    /\ \E restored \in BOOLEAN :
          LET fin == FinallyBlock(fdBound, fdState, cwd, procCwd, pending, restored) IN
             /\ fdState' = fin.fdState
             /\ procCwd' = fin.procCwd
             /\ chdirRaised' = fin.chdirRaised
             /\ IF fin.outcome = "return"
                THEN /\ pdf_file' = PdfFileOf(file_name)
                     /\ pc' = "pdffonts"
                     /\ result' = result
                ELSE /\ pdf_file' = pdf_file
                     /\ pc' = "done"
                     /\ result' = fin.outcome
    /\ UNCHANGED <<mainVars, loopVars, font_pattern, doc, fdBound, cwd, file_name, disk,
                   fState, platexStatus, dviStatus, pending, entered, inspected,
                   pdfFonts, raw, font_types, reportVars>>

\* lines 142-143: check_output raises OSError when pdffonts cannot be
\* launched, CalledProcessError when it exits with a non-zero status, and
\* returns the bytes of its report otherwise
RunInspector ==
    /\ pc = "pdffonts"
    /\ inspected' = TRUE
    /\ \E outcome \in {"report", "exit status", "launch fails"} :
          IF outcome = "report"
          THEN \E table \in FontTables :
                  /\ pdfFonts' = table
                  /\ raw' = RenderTable(table, 1)
                  /\ pc' = "parse"
                  /\ result' = result
          ELSE /\ pc' = "done"
               /\ result' = IF outcome = "launch fails" THEN "OSError"
                            ELSE "CalledProcessError"
               /\ UNCHANGED <<pdfFonts, raw>>
    /\ UNCHANGED <<mainVars, loopVars, font_pattern, mkVars, pdf_file, font_types,
                   reportVars>>

\* lines 144-150: re.split raises TypeError when handed None
ParseOutput ==
    /\ pc = "parse"
    /\ LET text == to_str(raw) IN
          IF text = None
          THEN /\ pc' = "done"
               /\ result' = "TypeError"
               /\ font_types' = font_types
          ELSE /\ font_types' = ParseAll(output_pattern_split(text), 1)
               /\ pc' = "report"
               /\ result' = result
    /\ UNCHANGED <<mainVars, loopVars, font_pattern, mkVars, pdf_file, inspected,
                   pdfFonts, raw, reportVars>>

\* lines 176-182: one iteration of the reporting loop.  print raises OSError
\* when stdout does not take the line (accepted = FALSE); at line 180 the
\* format raises before print is called
ReportStep ==
    /\ pc = "report"
    /\ k <= Len(font_types)
    /\ \E accepted \in BOOLEAN :
          LET r == Report(type, font_pattern, f, font_types[k]) IN
             /\ r.kind # "print" => accepted
             /\ out' = IF r.kind = "print" /\ accepted THEN Append(out, r.line) ELSE out
             /\ IF r.kind = "raise"
                THEN pc' = "done" /\ result' = r.err /\ k' = k
                ELSE IF r.kind = "print" /\ ~accepted
                     THEN pc' = "done" /\ result' = "OSError" /\ k' = k
                ELSE pc' = pc /\ result' = result /\ k' = k + 1
    /\ UNCHANGED <<mainVars, loopVars, font_pattern, mkVars, checkVars>>

\* the reporting loop is exhausted: main returns
ReportDone ==
    /\ pc = "report"
    /\ k > Len(font_types)
    /\ pc' = "done"
    /\ result' = "ok"
    /\ UNCHANGED <<mainVars, loopVars, font_pattern, mkVars, checkVars, reportVars>>

Next ==
    \/ ExpandStep
    \/ SetupFilter
    \/ MkDTemp
    \/ MkSTemp
    \/ OpenDocument
    \/ WriteDocument
    \/ ChDir
    \/ RunCompiler
    \/ RunConverter
    \/ CheckPdf
    \/ Finally
    \/ RunInspector
    \/ ParseOutput
    \/ ReportStep
    \/ ReportDone

Spec == Init /\ [][Next]_vars

----------------------------------------------------------------------------
\* Properties.

FoldSeq(s) == [j \in 1..Len(s) |-> Fold(s[j])]

\* pat occurs in t starting at position 0
PrefixMatches(pat, ic, t) ==
    /\ Len(pat) <= Len(t)
    /\ IF ic THEN FoldSeq(SubSeq(t, 1, Len(pat))) = FoldSeq(pat)
       ELSE SubSeq(t, 1, Len(pat)) = pat

\* line is "<label>: <t>" for some label
IsLineFor(line, t) ==
    /\ Len(line) >= Len(t) + 2
    /\ SubSeq(line, Len(line) - Len(t) - 1, Len(line)) = <<58, 32>> \o t

\* line is "<lab>: <font type>" for one of the font types found
HasLabel(line, lab) ==
    \E j \in 1..Len(font_types) : line = lab \o <<58, 32>> \o font_types[j]

ExpectedPdf == <<47, 116, 47, 100, 46, 112, 100, 102>>      \* "/t/d.pdf"

AfterMakeImagePdf == pc \in {"pdffonts", "parse", "report", "done"}

\* C1: with a --type filter, every font type the pattern matches from
\* position 0 is printed as a line "<label>: <font type>" and the invocation
\* ends normally.
C1_MatchedTypesPrinted ==
    (pc = "done" /\ Truthy(type) /\ font_types # NoList) =>
        /\ result = "ok"
        /\ \A j \in 1..Len(font_types) :
              PrefixMatches(type, ignorecase, font_types[j]) =>
                  \E n \in 1..Len(out) : IsLineFor(out[n], font_types[j])

\* C2: with a --type filter, no line is printed for a font type that the
\* pattern does not match starting at position 0.
C2_NoLineForUnmatchedType ==
    Truthy(type) =>
        \A n \in 1..Len(out) : \A j \in 1..Len(font_types) :
            IsLineFor(out[n], font_types[j]) =>
                PrefixMatches(type, ignorecase, font_types[j])

C2_Witness ==
    /\ Truthy(type)
    /\ result = "ok"
    /\ Len(font_types) >= 2
    /\ \A j \in 1..Len(font_types) : ~PrefixMatches(type, ignorecase, font_types[j])
    /\ \E j \in 1..Len(font_types) :
          \E m \in 2..Len(font_types[j]) :
              PrefixMatches(type, ignorecase, SubSeq(font_types[j], m, Len(font_types[j])))

\* the type descriptor column of every font row of the report, in order
DescriptorsOf(table) ==
    LET fonts == SelectSeq(table, LAMBDA r : r.kind = "font")
    IN [j \in 1..Len(fonts) |-> fonts[j].desc]

\* C3: every well-formed row is matched and its type group is exactly the
\* type descriptor column, so check_font_type returns one type per such row.
C3_TypeIsDescriptorColumn ==
    font_types # NoList => font_types = DescriptorsOf(pdfFonts)

\* C4 as stated: once the compile/convert steps are over, make_image_pdf
\* returns the PDF path exactly when the PDF is on disk, whatever the exit
\* statuses, and raises RuntimeError otherwise; pdffonts is never invoked and
\* no font list is returned when no PDF was produced.
C4_PdfReturnedIffOnDisk ==
    /\ pending \in {"return", "RuntimeError"} =>
          /\ pending = "return" <=> ExpectedPdf \in disk
          /\ AfterMakeImagePdf /\ pending = "return" => pdf_file = ExpectedPdf
          /\ AfterMakeImagePdf /\ pending = "RuntimeError" =>
                pc = "done" /\ result = "RuntimeError" /\ pdf_file = None
    /\ inspected => ExpectedPdf \in disk /\ pdf_file = ExpectedPdf
    /\ font_types # NoList => ExpectedPdf \in disk

\* C4 amended: as above when the os.chdir(cwd) of the finally block succeeds;
\* when it raises, make_image_pdf ends with that OSError whether or not the
\* PDF is on disk.  pdffonts is never invoked and no font list is returned
\* unless the PDF is on disk and its path was returned.
C4_PdfReturnedIffOnDiskAndRestored ==
    /\ pending \in {"return", "RuntimeError"} =>
          /\ pending = "return" <=> ExpectedPdf \in disk
          /\ AfterMakeImagePdf /\ ~chdirRaised /\ pending = "return" =>
                pdf_file = ExpectedPdf
          /\ AfterMakeImagePdf /\ ~chdirRaised /\ pending = "RuntimeError" =>
                pc = "done" /\ result = "RuntimeError" /\ pdf_file = None
          /\ AfterMakeImagePdf /\ chdirRaised =>
                pc = "done" /\ result = "OSError" /\ pdf_file = None
    /\ inspected => ExpectedPdf \in disk /\ pdf_file = ExpectedPdf /\ ~chdirRaised
    /\ font_types # NoList => ExpectedPdf \in disk /\ pdf_file = ExpectedPdf

C4_Witness ==
    /\ inspected
    /\ dviStatus = 1
    /\ pdf_file = ExpectedPdf
    /\ procCwd = CallerDir

\* C5: after the wildcard loop every argument containing "*" or "?" has been
\* replaced by its matches.
C5_AllWildcardsExpanded ==
    pc # "expand" =>
        \A j \in 1..Len(argv) :
            HasWild(argv[j]) =>
                /\ argv[j] \notin Range(image_files)
                /\ Range(Glob(argv[j])) \subseteq Range(image_files)

\* a literal argument that occurs once and is no match of a wildcard argument
PlainLiteral(j) ==
    /\ ~HasWild(argv[j])
    /\ \A m \in 1..Len(argv) : m # j => argv[m] # argv[j]
    /\ \A m \in 1..Len(argv) : HasWild(argv[m]) => argv[j] \notin Range(Glob(argv[m]))

\* C6: literal arguments before a wildcard come before its matches, literal
\* arguments after it come after them; ["a.png", "*.jpg"] gives
\* ["a.png", "b.jpg", "c.jpg"].
C6_OrderAroundExpansionPoint ==
    pc # "expand" =>
        /\ \A a, b \in 1..Len(argv) :
              (HasWild(argv[a]) /\ PlainLiteral(b)) =>
                  \A p, q \in 1..Len(image_files) :
                      (image_files[p] = argv[b] /\ image_files[q] \in Range(Glob(argv[a])))
                          => IF b < a THEN p < q ELSE q < p
        /\ argv = << <<97, 46, 112, 110, 103>>, <<42, 46, 106, 112, 103>> >> =>
              image_files = << <<97, 46, 112, 110, 103>>, <<98, 46, 106, 112, 103>>,
                               <<99, 46, 106, 112, 103>> >>

\* C7 as stated: on every exit path of make_image_pdf the working directory
\* is the one at entry and the temporary descriptor and the document handle
\* are closed.
C7_CwdRestoredHandlesClosed ==
    AfterMakeImagePdf =>
        /\ procCwd = CallerDir
        /\ fdState # "open"
        /\ fState # "open"

\* C7 amended: on every exit path the descriptor and the handle are closed,
\* and the working directory is the one at entry unless the os.chdir(cwd) of
\* the finally block itself raised; then make_image_pdf ends with that
\* OSError and the process stays where it was when the finally block began:
\* in the temporary directory when the os.chdir(tmp_dir) of line 109 had
\* moved it there, in the caller's directory when it had not.
C7_RestoredUnlessChdirRaises ==
    AfterMakeImagePdf =>
        /\ fdState # "open"
        /\ fState # "open"
        /\ ~chdirRaised => procCwd = CallerDir
        /\ chdirRaised =>
              /\ pc = "done"
              /\ result = "OSError"
              /\ procCwd = IF entered THEN TmpDir ELSE CallerDir

C7_Witness ==
    /\ pc = "done"
    /\ chdirRaised
    /\ result = "OSError"
    /\ entered
    /\ procCwd = TmpDir
    /\ fdState = "closed"
    /\ fState = "closed"
    /\ ExpectedPdf \in disk

\* C8: when the report decodes under no encoding, no error is raised: no
\* font type is found, nothing is printed, the invocation ends normally.
C8_DecodeFailureSilent ==
    (pc = "done" /\ inspected /\ to_str(raw) = None) =>
        /\ result = "ok"
        /\ font_types = <<>>
        /\ out = <<>>

ToBeReported(t) == ~Truthy(type) \/ PrefixMatches(type, ignorecase, t)

\* C9 as stated: an invocation that fails has printed nothing; one that ends
\* normally has printed a line for every font type to be reported.
C9_NoPartialResults ==
    /\ result \notin {"running", "ok"} => out = <<>>
    /\ result = "ok" =>
          /\ \A j \in 1..Len(font_types) :
                ToBeReported(font_types[j]) =>
                    \E n \in 1..Len(out) : IsLineFor(out[n], font_types[j])
          /\ Len(out) = Cardinality({j \in 1..Len(font_types) : ToBeReported(font_types[j])})

\* a print call of the reporting loop raised: every other OSError of the
\* invocation is raised before check_font_type returns its list
PrintRaised == pc = "done" /\ result = "OSError" /\ font_types # NoList

\* C9 amended: an invocation that ends normally has printed a line for every
\* font type to be reported; one that fails anywhere but in a print call has
\* printed nothing; one that fails in a print call (only without a filter)
\* has printed exactly the lines of the font types before the failing one.
C9_NoPartialResultsUnlessPrintRaises ==
    /\ (result \notin {"running", "ok"} /\ ~PrintRaised) => out = <<>>
    /\ PrintRaised =>
          /\ ~Truthy(type)
          /\ k \in 1..Len(font_types)
          /\ out = [j \in 1..(k - 1) |-> f \o <<58, 32>> \o font_types[j]]
    /\ result = "ok" =>
          /\ \A j \in 1..Len(font_types) :
                ToBeReported(font_types[j]) =>
                    \E n \in 1..Len(out) : IsLineFor(out[n], font_types[j])
          /\ Len(out) = Cardinality({j \in 1..Len(font_types) : ToBeReported(font_types[j])})

C9_Witness ==
    /\ PrintRaised
    /\ k = 2
    /\ Len(out) = 1
    /\ Len(font_types) = 2

\* C10 as stated: every line carries the loop variable as its label, and
\* that label is an entry of the effective image list.
C10_LabelInImageList ==
    \A n \in 1..Len(out) : HasLabel(out[n], f) /\ f \in Range(image_files)

\* C10 amended: every line carries the value left in the loop variable as
\* its label, whatever the font type; that value is an entry of the
\* effective image list or an entry with "*" or "?" that the loop removed.
C10_LabelIsLoopVariable ==
    \A n \in 1..Len(out) :
        /\ HasLabel(out[n], f)
        /\ f \in Range(image_files) \/ HasWild(f)

C10_Witness ==
    /\ Len(out) >= 2
    /\ out[1] # out[2]
    /\ f \notin Range(image_files)

====
